---- MODULE Spec2Model ----
(***************************************************************************)
(* Model of the agent orchestration engine of the AI Sales Orchestrator:   *)
(* the keyword classifier (orchestrator_node), the concurrent dispatcher   *)
(* (call_agents_node over BaseAgent.run), the payment gateway failover     *)
(* protocol (PaymentAgent._process_payment_with_retry), the response       *)
(* synthesizer and the run wrapper (run_orchestrator).                     *)
(*                                                                         *)
(* Python values are modelled as follows.  A dict is a function from its   *)
(* keys (strings) to values, dict.update is Update.  The value an agent    *)
(* returns is wrapped as Dict(d) or List(l), because one agent returns a   *)
(* list.  Request texts and keywords are tuples of characters, so that     *)
(* lower() and the substring test `kw in request` are computed.  Wall      *)
(* clock values (timestamp, execution_time) are left out of the entries.   *)
(* Non-ASCII glyphs of the response templates are written in ASCII.        *)
(*                                                                         *)
(* Scheduling is asyncio's: the tasks of one gather start in launch order  *)
(* and a task runs without interruption up to its next real suspension.    *)
(* The only real suspension of an agent is asyncio.sleep in                *)
(* PaymentAgent._attempt_payment; a sleeping task resumes only after the   *)
(* tasks that are ready have run.                                          *)
(***************************************************************************)
EXTENDS Integers, Sequences, FiniteSets, TLC

VARIABLES
    session,      \* the session record of the SessionManager
    request,      \* CustomerRequest.message of the run
    gateways,     \* PaymentAgent.gateways
    state,        \* the AgentState dict threaded through the graph nodes
    pc,           \* position of the controlling task
    tasks,        \* call_agents_node: the task list, in launch order
    tpc,          \* position of each agent task
    results,      \* value returned by BaseAgent.run of each task
    outcome,      \* per agent: how _execute ended ("none","returned","raised")
    returned,     \* per agent: the value _execute returned
    updates,      \* per audit-log entry: number of .update() calls applied
    merged,       \* agents whose result call_agents_node passed to state.update
    pay,          \* locals of the payment invocation: amount, loop index i,
                  \* retry_history, the values _attempt_payment returned and the
                  \* indices of the gateways it was called with
    reply,        \* what run_orchestrator returned to the caller
    products,     \* RecommendationAgent.products of the one agent instance
    other         \* the recommendation agent's invocation by a second run

vars == <<session, request, gateways, state, pc, tasks, tpc, results,
          outcome, returned, updates, merged, pay, reply, products, other>>

(***************************************************************************)
(* Bounds                                                                  *)
(***************************************************************************)
MaxCart == 2        \* longest cart of a session snapshot
MaxQty == 2         \* largest quantity of a cart entry
MaxFaults == 1      \* most agents with an injected fault in one run
MaxGateways == 3    \* longest injected gateway list
MaxRecs == 4        \* longest recommendations slot given to the synthesizer
MaxNeeded == 3      \* longest agents_needed list given to the dispatcher

(***************************************************************************)
(* Python helpers                                                          *)
(***************************************************************************)
EmptyDict == [k \in {} |-> TRUE]

\* dict.update(r)
Update(s, r) ==
    [k \in (DOMAIN s) \cup (DOMAIN r) |-> IF k \in DOMAIN r THEN r[k] ELSE s[k]]

Dict(d) == [type |-> "dict", val |-> d]

List(l) == [type |-> "list", val |-> l]

\* truth value of a returned value: a non-empty dict or list
Truthy(v) == IF v.type = "dict" THEN DOMAIN v.val # {} ELSE v.val # <<>>

\* keys of a returned value (a list has none)
Fields(v) == IF v.type = "dict" THEN DOMAIN v.val ELSE {}

UpperCase == <<"A","B","C","D","E","F","G","H","I","J","K","L","M",
               "N","O","P","Q","R","S","T","U","V","W","X","Y","Z">>

LowerCase == <<"a","b","c","d","e","f","g","h","i","j","k","l","m",
               "n","o","p","q","r","s","t","u","v","w","x","y","z">>

LowerChar(c) ==
    IF \E i \in 1..26 : UpperCase[i] = c
    THEN LowerCase[CHOOSE i \in 1..26 : UpperCase[i] = c]
    ELSE c

\* str.lower()
Lower(s) == [i \in 1..Len(s) |-> LowerChar(s[i])]

\* kw in text
Contains(text, kw) ==
    \E i \in 1..(Len(text) - Len(kw) + 1) : SubSeq(text, i, i + Len(kw) - 1) = kw

\* any(word in text for word in kws)
AnyIn(kws, text) == \E i \in 1..Len(kws) : Contains(text, kws[i])

\* sum(f(item) for item in seq), for 2500 * quantity
RECURSIVE CartValue(_)
CartValue(cart) ==
    IF cart = <<>> THEN 0
    ELSE 2500 * Head(cart).quantity + CartValue(Tail(cart))

Min(a, b) == IF a < b THEN a ELSE b

(***************************************************************************)
(* Request texts and keyword tables                                        *)
(***************************************************************************)
Req_Hi == <<"H", "i">>
Req_Thanks == <<"t", "h", "a", "n", "k", "s">>
Req_Ok == <<"o", "k">>
Req_PayNow == <<"P", "a", "y", " ", "n", "o", "w">>
Req_BuyIt == <<"b", "u", "y", " ", "i", "t">>
Req_StockCheckout == <<"s", "t", "o", "c", "k", "?", " ", "c", "h", "e", "c", "k", "o", "u", "t">>
Req_NearbyStore == <<"n", "e", "a", "r", "b", "y", " ", "s", "t", "o", "r", "e">>
Req_RefundHelp == <<"r", "e", "f", "u", "n", "d", " ", "h", "e", "l", "p">>
Req_ShowDelivery == <<"S", "h", "o", "w", " ", "d", "e", "l", "i", "v", "e", "r", "y">>
Req_PayNearby == <<"p", "a", "y", " ", "n", "e", "a", "r", "b", "y">>
Req_Coupon == <<"c", "o", "u", "p", "o", "n">>
KW_recommendation ==
    << <<"r", "e", "c", "o", "m", "m", "e", "n", "d">>,
       <<"s", "u", "g", "g", "e", "s", "t">>,
       <<"s", "h", "o", "w">>,
       <<"m", "a", "t", "c", "h">>,
       <<"p", "a", "i", "r">>,
       <<"g", "o", "e", "s", " ", "w", "i", "t", "h">> >>
KW_inventory ==
    << <<"s", "t", "o", "c", "k">>,
       <<"a", "v", "a", "i", "l", "a", "b", "l", "e">>,
       <<"s", "t", "o", "r", "e">>,
       <<"n", "e", "a", "r", "b", "y">>,
       <<"r", "e", "s", "e", "r", "v", "e">> >>
KW_payment ==
    << <<"p", "a", "y">>,
       <<"p", "a", "y", "m", "e", "n", "t">>,
       <<"c", "h", "e", "c", "k", "o", "u", "t">>,
       <<"b", "u", "y">>,
       <<"p", "u", "r", "c", "h", "a", "s", "e">> >>
KW_fulfillment ==
    << <<"d", "e", "l", "i", "v", "e", "r">>,
       <<"s", "h", "i", "p", "p", "i", "n", "g">>,
       <<"d", "e", "l", "i", "v", "e", "r", "y">>,
       <<"w", "h", "e", "n", " ", "w", "i", "l", "l">> >>
KW_loyalty ==
    << <<"d", "i", "s", "c", "o", "u", "n", "t">>,
       <<"o", "f", "f", "e", "r">>,
       <<"p", "o", "i", "n", "t", "s">>,
       <<"l", "o", "y", "a", "l", "t", "y">>,
       <<"c", "o", "u", "p", "o", "n">> >>
KW_support ==
    << <<"r", "e", "t", "u", "r", "n">>,
       <<"r", "e", "f", "u", "n", "d">>,
       <<"e", "x", "c", "h", "a", "n", "g", "e">>,
       <<"p", "r", "o", "b", "l", "e", "m">>,
       <<"i", "s", "s", "u", "e">>,
       <<"h", "e", "l", "p">> >>
KW_greeting ==
    << <<"h", "i">>,
       <<"h", "e", "l", "l", "o">>,
       <<"h", "e", "y">> >>
KW_thanks ==
    << <<"t", "h", "a", "n", "k">>,
       <<"t", "h", "a", "n", "k", "s">> >>
W_pay == <<"p", "a", "y">>
W_checkout == <<"c", "h", "e", "c", "k", "o", "u", "t">>
W_purchase == <<"p", "u", "r", "c", "h", "a", "s", "e">>
W_stock == <<"s", "t", "o", "c", "k">>
W_available == <<"a", "v", "a", "i", "l", "a", "b", "l", "e">>
W_store == <<"s", "t", "o", "r", "e">>
W_nearby == <<"n", "e", "a", "r", "b", "y">>
W_return == <<"r", "e", "t", "u", "r", "n">>
W_refund == <<"r", "e", "f", "u", "n", "d">>
W_exchange == <<"e", "x", "c", "h", "a", "n", "g", "e">>
W_replace == <<"r", "e", "p", "l", "a", "c", "e">>
W_help == <<"h", "e", "l", "p">>
W_issue == <<"i", "s", "s", "u", "e">>

Requests ==
    { Req_Hi, Req_Thanks, Req_Ok, Req_PayNow, Req_BuyIt, Req_StockCheckout,
      Req_NearbyStore, Req_RefundHelp, Req_ShowDelivery, Req_PayNearby, Req_Coupon }

(***************************************************************************)
(* Agents                                                                  *)
(***************************************************************************)
\* the order in which call_agents_node creates the tasks
LaunchOrder ==
    <<"recommendation", "inventory", "payment", "fulfillment", "loyalty", "support">>

Agents == { LaunchOrder[i] : i \in 1..Len(LaunchOrder) }

AgentName(a) ==
    CASE a = "recommendation" -> "Recommendation Agent"
      [] a = "inventory" -> "Inventory Agent"
      [] a = "payment" -> "Payment Agent"
      [] a = "fulfillment" -> "Fulfillment Agent"
      [] a = "loyalty" -> "Loyalty Agent"
      [] a = "support" -> "Support Agent"

\* the result slot of AgentState that belongs to an agent
Slot(a) ==
    CASE a = "recommendation" -> "recommendations"
      [] a = "inventory" -> "inventory_status"
      [] a = "payment" -> "payment_status"
      [] a = "fulfillment" -> "fulfillment_info"
      [] a = "loyalty" -> "loyalty_info"
      [] a = "support" -> "support_info"

(***************************************************************************)
(* Intent classifier                                                       *)
(***************************************************************************)
\* agents_needed.append(a) if the condition holds
AppendIf(seq, cond, a) == IF cond THEN Append(seq, a) ELSE seq

InSeq(seq, a) == \E i \in 1..Len(seq) : seq[i] = a

\* variant of KeywordMatches: an elif chain, the first matching group only
KeywordMatchesFirstOnly(req) ==
    IF AnyIn(KW_recommendation, req) THEN <<"recommendation">>
    ELSE IF AnyIn(KW_inventory, req) THEN <<"inventory">>
    ELSE IF AnyIn(KW_payment, req) THEN <<"payment">>
    ELSE IF AnyIn(KW_fulfillment, req) THEN <<"fulfillment">>
    ELSE IF AnyIn(KW_loyalty, req) THEN <<"loyalty">>
    ELSE IF AnyIn(KW_support, req) THEN <<"support">>
    ELSE <<>>

\* the six keyword tests, in the order of the code
KeywordMatches(req) ==
    LET k1 == AppendIf(<<>>, AnyIn(KW_recommendation, req), "recommendation")
        k2 == AppendIf(k1, AnyIn(KW_inventory, req), "inventory")
        k3 == AppendIf(k2, AnyIn(KW_payment, req), "payment")
        k4 == AppendIf(k3, AnyIn(KW_fulfillment, req), "fulfillment")
        k5 == AppendIf(k4, AnyIn(KW_loyalty, req), "loyalty")
    IN  AppendIf(k5, AnyIn(KW_support, req), "support")

\* variant of ForceRecommendation: no membership test before the append
ForceRecommendationUnchecked(needed, s) ==
    AppendIf(needed, s["cart"] # <<>> \/ s["liked_products"] # <<>>, "recommendation")

\* variant of ForceRecommendation: the liked products are not looked at
ForceRecommendationCartOnly(needed, s) ==
    AppendIf(needed, s["cart"] # <<>> /\ ~InSeq(needed, "recommendation"), "recommendation")

\* if state.get("cart") or state.get("liked_products"): recommendation if absent
ForceRecommendation(needed, s) ==
    AppendIf(needed, (s["cart"] # <<>> \/ s["liked_products"] # <<>>)
                        /\ ~InSeq(needed, "recommendation"), "recommendation")

\* variant of ForceLoyalty: loyalty is added to an empty selection too
ForceLoyaltyAlways(needed) ==
    AppendIf(needed, ~InSeq(needed, "loyalty"), "loyalty")

\* variant of ForceLoyalty: loyalty is never added
ForceLoyaltyNever(needed) == needed

\* if "loyalty" not in agents_needed and len(agents_needed) > 0
ForceLoyalty(needed) ==
    AppendIf(needed, ~InSeq(needed, "loyalty") /\ Len(needed) > 0, "loyalty")

Classify(s) ==
    LET req == Lower(s["current_request"])
    IN  ForceLoyalty(ForceRecommendation(KeywordMatches(req), s))

\* the entry orchestrator_node appends to the audit log
OrchestratorEntry(needed) ==
    [agent |-> "orchestrator", action |-> "analyzed_request", agents_to_call |-> needed]

should_call_agents(s) ==
    IF "agents_needed" \in DOMAIN s /\ s["agents_needed"] # <<>>
    THEN "call_agents" ELSE "simple_response"

(***************************************************************************)
(* Agent logic (_execute of each agent)                                    *)
(***************************************************************************)
\* RecommendationAgent.products, the built-in catalogue
Products ==
    << [product_id |-> "VH001", name |-> "Classic Blue Formal Shirt", price |-> 2500,
        category |-> "Formal Shirts", tags |-> <<"wedding", "formal", "office">>,
        match_score |-> 95],
       [product_id |-> "VH002", name |-> "Navy Blue Silk Tie", price |-> 800,
        category |-> "Ties", tags |-> <<"formal", "wedding">>, match_score |-> 85],
       [product_id |-> "VH003", name |-> "Brown Leather Belt", price |-> 1200,
        category |-> "Belts", tags |-> <<"formal", "casual">>, match_score |-> 78] >>

\* pid.startswith("VH")
StartsWithVH(pid) == pid \in {"VH001", "VH999"}


_get_matching_products(liked) ==
    LET hit(p) == (\E i \in 1..Len(liked) : StartsWithVH(liked[i]))
                  /\ p.category \in {"Ties", "Belts", "Trousers"}
        matched == SelectSeq(Products, hit)
    IN  IF matched # <<>> THEN matched ELSE SubSeq(Products, 1, Min(3, Len(Products)))

_get_complementary_products(cart) ==
    _get_matching_products([i \in 1..Len(cart) |-> cart[i].product_id])

\* sorted by match_score, descending; the catalogue is listed in that order
_get_trending_products == Products

_generate_reasoning(p, s) ==
    IF s["liked_products"] # <<>> THEN "Pairs perfectly with your liked items"
    ELSE IF s["cart"] # <<>> THEN "Completes your look"
    ELSE "Popular choice for " \o p.tags[1] \o ", " \o p.tags[2]

\* for rec in recommendations: rec["reasoning"] = ...: the recommendations are
\* the dicts of self.products, so the assignment writes into the catalogue
StoreReasoning(prods, recs) ==
    [i \in 1..Len(prods) |->
        IF \E j \in 1..Len(recs) : recs[j].product_id = prods[i].product_id
        THEN recs[CHOOSE j \in 1..Len(recs) : recs[j].product_id = prods[i].product_id]
        ELSE prods[i]]

\* a list of recommendations read again: its elements are dicts of the catalogue
RereadList(recs, prods) ==
    [i \in 1..Len(recs) |->
        prods[CHOOSE j \in 1..Len(prods) : prods[j].product_id = recs[i].product_id]]

\* a value returned by the recommendation agent, read again
RereadValue(v, prods) ==
    IF v.type = "dict" /\ "recommendations" \in DOMAIN v.val
    THEN Dict([v.val EXCEPT !["recommendations"] = RereadList(@, prods)])
    ELSE v

\* a run's state (or the dict returned to the caller), read again
RereadState(s, prods) ==
    [k \in DOMAIN s |->
        IF k = "recommendations" THEN RereadList(s[k], prods)
        ELSE IF k = "agent_calls"
        THEN [i \in 1..Len(s[k]) |->
                IF "result" \in DOMAIN s[k][i]
                THEN [s[k][i] EXCEPT !["result"] = RereadValue(@, prods)]
                ELSE s[k][i]]
        ELSE s[k]]

RecommendationExecute(s) ==
    LET recs == IF s["liked_products"] # <<>>
                THEN _get_matching_products(s["liked_products"])
                ELSE IF s["cart"] # <<>>
                THEN _get_complementary_products(s["cart"])
                ELSE _get_trending_products
        withReason == [i \in 1..Len(recs) |->
                         Update(recs[i], [reasoning |-> _generate_reasoning(recs[i], s)])]
    IN  Dict([recommendations |-> SubSeq(withReason, 1, Min(5, Len(withReason))),
              total_found |-> Len(recs)])

\* InventoryAgent.stores, the built-in list
Stores ==
    << [store_id |-> "S001", name |-> "Bandra Store", location |-> "Mumbai", distance |-> "2km"],
       [store_id |-> "S002", name |-> "Powai Store", location |-> "Mumbai", distance |-> "5km"],
       [store_id |-> "S003", name |-> "Andheri Store", location |-> "Mumbai", distance |-> "7km"] >>

_find_nearby_stores(location) ==
    [i \in 1..Len(Stores) |->
        [name |-> Stores[i].name, distance |-> Stores[i].distance,
         stock_available |-> TRUE, stock_count |-> 3]]

\* product_id == "VH999" or "out" in product_id.lower()
OutOfStock(pid) == pid = "VH999"

_check_stock(pid, size, location) ==
    IF pid = "VH001"
    THEN [available |-> TRUE, product_id |-> pid, size |-> size, store |-> "Bandra Store",
          stock |-> 3, distance |-> "2km", can_reserve |-> TRUE]
    ELSE IF OutOfStock(pid)
    THEN [available |-> FALSE, product_id |-> pid, size |-> size,
          message |-> "Size " \o size \o " unavailable at your location",
          nearby_stores |-> SubSeq(_find_nearby_stores(location), 1, 2),
          alternatives |-> <<>>, restock_date |-> "3 days"]
    ELSE [available |-> TRUE, product_id |-> pid, size |-> size, store |-> "Bandra Store",
          stock |-> 5, distance |-> "2km"]

_check_cart_availability(cart, location) ==
    LET bad(item) == ~_check_stock(item.product_id, item.size, location).available
        unavailable == SelectSeq(cart, bad)
    IN  [all_available |-> unavailable = <<>>,
         unavailable_items |-> [i \in 1..Len(unavailable) |-> unavailable[i].product_id],
         message |-> IF unavailable = <<>> THEN "All items available"
                     ELSE "Some items unavailable"]

InventoryExecute(s) ==
    LET req == Lower(s["current_request"])
        cart == s["cart"]
    IN  IF Contains(req, W_stock) \/ Contains(req, W_available)
        THEN IF cart # <<>>
             THEN Dict(_check_stock(cart[1].product_id, cart[1].size, s["location"]))
             ELSE Dict(_check_stock("VH001", "40", s["location"]))
        ELSE IF Contains(req, W_store) \/ Contains(req, W_nearby)
        THEN List(_find_nearby_stores(s["location"]))
        ELSE IF cart # <<>>
        THEN Dict(_check_cart_availability(cart, s["location"]))
        ELSE Dict([available |-> TRUE, message |-> "All items in stock"])

FulfillmentExecute(s) ==
    LET cart == s["cart"]
        cart_value == CartValue(cart)
    IN  IF cart = <<>>
        THEN Dict([status |-> "no_order", message |-> "No items to deliver"])
        ELSE Dict([status |-> "available",
                   delivery_options |->
                     << [type |-> "express", timeline |-> "Tomorrow 10 AM", cost |-> 99],
                        [type |-> "standard", timeline |-> "2-3 days", cost |-> 0],
                        [type |-> "store_pickup", timeline |-> "Today 6 PM", cost |-> 0] >>,
                   recommended |-> IF cart_value > 4000 THEN "standard" ELSE "express",
                   timeline |-> IF cart_value > 4000 THEN "2-3 days" ELSE "Tomorrow",
                   message |-> IF cart_value > 4000 THEN "Free delivery available!"
                               ELSE "Express delivery available"])

\* customer.get("loyalty_points", 500) of the built-in customer table
LoyaltyPoints == 500

LoyaltyExecute(s) ==
    LET cart == s["cart"]
        cart_value == CartValue(cart)
        offers == IF Len(cart) >= 3 THEN <<"Bundle Offer: 20% off on 3+ items">>
                  ELSE IF Len(cart) >= 2 THEN <<"Multi-buy: 10% off on 2+ items">>
                  ELSE <<>>
        discount_amount == IF Len(cart) >= 3 THEN (cart_value * 20) \div 100
                           ELSE IF Len(cart) >= 2 THEN (cart_value * 10) \div 100
                           ELSE 0
        final_price == cart_value - discount_amount
                         - Min(LoyaltyPoints, (cart_value * 10) \div 100)
    IN  Dict([status |-> "calculated", points_available |-> LoyaltyPoints,
              points_value |-> LoyaltyPoints, offers |-> offers,
              discount_amount |-> discount_amount, original_price |-> cart_value,
              final_price |-> final_price, savings |-> cart_value - final_price,
              message |-> "You're saving Rs" \o ToString(cart_value - final_price) \o "!"])

\* variant of SupportExecute: the result carries an emptied cart
SupportExecuteClearsCart(s) ==
    Dict([status |-> "ready", cart |-> <<>>,
          message |-> "I'm here to help! You can ask about returns, exchanges, or any issues."])

SupportExecute(s) ==
    LET req == Lower(s["current_request"])
    IN  IF Contains(req, W_return) \/ Contains(req, W_refund)
        THEN Dict([status |-> "eligible", return_window |-> "30 days",
                   conditions |-> <<"Unused with tags", "Original packaging">>,
                   refund_timeline |-> "5-7 days", pickup_available |-> TRUE,
                   message |-> "You can return this item within 30 days. Pickup can be scheduled."])
        ELSE IF Contains(req, W_exchange) \/ Contains(req, W_replace)
        THEN Dict([status |-> "eligible",
                   exchange_options |-> <<"Different size", "Different color", "Different product">>,
                   timeline |-> "3-5 days for exchange", cost |-> "Free exchange",
                   message |-> "We can arrange an exchange. What would you like instead?"])
        ELSE IF Contains(req, W_help) \/ Contains(req, W_issue)
        THEN Dict([status |-> "available",
                   help_topics |-> <<"Order tracking", "Returns & Exchanges",
                                     "Payment issues", "Product questions">>,
                   contact |-> [phone |-> "1800-XXX-XXXX", email |-> "support@vanheusen.com",
                                chat |-> "Available 24/7"],
                   message |-> "I can help you with orders, returns, or any questions!"])
        ELSE Dict([status |-> "ready",
                   message |-> "I'm here to help! You can ask about returns, exchanges, or any issues."])

(***************************************************************************)
(* Payment agent                                                           *)
(***************************************************************************)
\* variant of ConfiguredGateways: the last gateway may fail too
ConfiguredGatewaysUnsure ==
    << [name |-> "Razorpay", success_rate |-> 30, timeout |-> 12],
       [name |-> "PayU", success_rate |-> 30, timeout |-> 8],
       [name |-> "UPI Direct", success_rate |-> 90, timeout |-> 7] >>

\* PaymentAgent.gateways; success_rate in percent, timeout in tenths of a second
ConfiguredGateways ==
    << [name |-> "Razorpay", success_rate |-> 30, timeout |-> 12],
       [name |-> "PayU", success_rate |-> 30, timeout |-> 8],
       [name |-> "UPI Direct", success_rate |-> 100, timeout |-> 7] >>

\* values of random.random(), in percent: it lies in [0, 1)
Draws == {0, 29, 30, 99}

\* values of random.randint(100000, 999999)
TxnNumbers == {100000, 999999}

\* variant of _calculate_total: equal cart entries are counted once
_calculate_total_distinct(cart) ==
    IF cart = <<>> THEN 3950
    ELSE CartValue([i \in 1..Len(cart) |->
                       IF \E j \in 1..(i - 1) : cart[j] = cart[i]
                       THEN [cart[i] EXCEPT !.quantity = 0]
                       ELSE cart[i]])

_calculate_total(cart) == IF cart = <<>> THEN 3950 ELSE CartValue(cart)

\* random.random() < gateway["success_rate"]
AttemptSucceeds(gateway, draw) == draw < gateway.success_rate

\* the entry appended to retry_history after an attempt
HistoryEntry(gateway, success) ==
    [gateway |-> gateway.name, status |-> IF success THEN "success" ELSE "failed"]

\* variant of RecordAttempt: the history keeps the latest attempt only
RecordAttemptLatest(history, gateway, success) == <<HistoryEntry(gateway, success)>>

\* retry_history.append({...})
RecordAttempt(history, gateway, success) == Append(history, HistoryEntry(gateway, success))

\* for gateway in self.gateways: the first and the following iteration
FirstGateway == 1

NextGateway(i) == i + 1

\* variant of ReturnsFromLoop: the loop goes on after a successful attempt
ReturnsFromLoopNever(success) == FALSE

\* if success: return {...}
ReturnsFromLoop(success) == success

RECURSIVE SumTimeouts(_, _)
SumTimeouts(gs, n) == IF n = 0 THEN 0 ELSE gs[n].timeout + SumTimeouts(gs, n - 1)

\* f"{x:.1f}s" of a number given in tenths
FormatTenths(t) == ToString(t \div 10) \o "." \o ToString(t % 10) \o "s"

\* variant of SucceededResult: the first gateway of the list is reported
SucceededResultFirstGateway(amount, gateway, txn, retry_history, gs) ==
    Dict([success |-> TRUE, status |-> "completed", amount |-> amount,
          gateway |-> gs[1].name, transaction_id |-> "TXN" \o ToString(txn),
          retry_history |-> retry_history,
          total_time |-> FormatTenths(SumTimeouts(gs, Len(retry_history))),
          message |-> "Payment successful via " \o gateway.name \o "!"])

SucceededResult(amount, gateway, txn, retry_history, gs) ==
    Dict([success |-> TRUE, status |-> "completed", amount |-> amount,
          gateway |-> gateway.name, transaction_id |-> "TXN" \o ToString(txn),
          retry_history |-> retry_history,
          total_time |-> FormatTenths(SumTimeouts(gs, Len(retry_history))),
          message |-> "Payment successful via " \o gateway.name \o "!"])

\* variant of AllFailedResult: only the last attempt is reported
AllFailedResultLastOnly(amount, retry_history) ==
    Dict([success |-> FALSE, status |-> "failed", amount |-> amount,
          retry_history |-> IF retry_history = <<>> THEN <<>>
                            ELSE <<retry_history[Len(retry_history)]>>,
          message |-> "All payment methods failed. Please try again later."])

AllFailedResult(amount, retry_history) ==
    Dict([success |-> FALSE, status |-> "failed", amount |-> amount,
          retry_history |-> retry_history,
          message |-> "All payment methods failed. Please try again later."])

PendingResult(amount) ==
    Dict([status |-> "pending", amount |-> amount, message |-> "Ready to process payment"])

\* variant of EntersRetry: only "pay" is looked for
EntersRetryPayOnly(s) == Contains(Lower(s["current_request"]), W_pay)

\* the condition under which _execute enters _process_payment_with_retry
EntersRetry(s) ==
    LET req == Lower(s["current_request"])
    IN  Contains(req, W_pay) \/ Contains(req, W_checkout) \/ Contains(req, W_purchase)

\* _execute of the payment agent when it returns without an attempt
PaymentExecute(s, gs) ==
    IF EntersRetry(s)
    THEN AllFailedResult(_calculate_total(s["cart"]), <<>>)
    ELSE PendingResult(_calculate_total(s["cart"]))

Execute(a, s, gs) ==
    CASE a = "recommendation" -> RecommendationExecute(s)
      [] a = "inventory" -> InventoryExecute(s)
      [] a = "payment" -> PaymentExecute(s, gs)
      [] a = "fulfillment" -> FulfillmentExecute(s)
      [] a = "loyalty" -> LoyaltyExecute(s)
      [] a = "support" -> SupportExecute(s)

\* an invocation whose _execute does not raise reaches asyncio.sleep of _attempt_payment
Suspends(a, s, gs) ==
    a = "payment" /\ EntersRetry(s) /\ gs # <<>>

(***************************************************************************)
(* BaseAgent.run                                                           *)
(***************************************************************************)
ProcessingEntry(a) == [agent |-> AgentName(a), status |-> "processing"]

\* variant of RunStart: the invocation is not recorded
RunStartNoAppend(calls, a) == calls

\* state["agent_calls"].append({... "status": "processing"})
RunStart(calls, a) == Append(calls, ProcessingEntry(a))

\* the entry that run updates when _execute has ended: state["agent_calls"][-1]
EntryToUpdate(calls, a) == Len(calls)

RunSuccess(calls, a, result) ==
    [calls EXCEPT ![EntryToUpdate(calls, a)] =
        Update(@, [status |-> "success", result |-> result])]

RunFailed(calls, a, err) ==
    [calls EXCEPT ![EntryToUpdate(calls, a)] =
        Update(@, [status |-> "failed", error |-> err])]

\* the value run returns when _execute raised
FailedReturn == Dict(EmptyDict)

CountUpdate(upd, calls, a) == [upd EXCEPT ![EntryToUpdate(calls, a)] = @ + 1]

(***************************************************************************)
(* Dispatcher                                                              *)
(***************************************************************************)
\* variant of LaunchList: one task per element of agents_needed
LaunchListPerId(needed) == needed

\* the tasks call_agents_node creates, in launch order
LaunchList(needed) == SelectSeq(LaunchOrder, LAMBDA a : InSeq(needed, a))

IndexOf(seq, a) == CHOOSE i \in 1..Len(seq) : seq[i] = a

\* variant of FirstReady: the event loop picks any ready task
FirstReadyAny(a) == InSeq(tasks, a) /\ tpc[a] = "ready"

\* a is the first task of the ready queue
FirstReady(a) ==
    /\ InSeq(tasks, a)
    /\ tpc[a] = "ready"
    /\ \A j \in 1..(IndexOf(tasks, a) - 1) : tpc[tasks[j]] # "ready"

\* variant of NoTaskReady: the sleep may end while tasks are still ready
NoTaskReadyOrNot == TRUE

\* the event loop runs every ready task before the callback of a sleep that has
\* not yet elapsed
NoTaskReady == \A a \in Agents : tpc[a] # "ready"

\* variant of GatherComplete: the controller resumes at the first finished task
GatherCompleteAny == \E i \in 1..Len(tasks) : tpc[tasks[i]] = "done"

\* asyncio.gather: the awaiting controller resumes when every task is done
GatherComplete == \A i \in 1..Len(tasks) : tpc[tasks[i]] = "done"

\* str(e) of the ValueError that dict.update raises on a list of 4-key dicts
UpdateError == "dictionary update sequence element #0 has length 4; 2 is required"

\* variant of MergeResults: a dict result is also stored in its agent's slot
RECURSIVE MergeResultsIntoSlots(_, _, _, _)
MergeResultsIntoSlots(s, ts, rs, done) ==
    IF ts = <<>> THEN [st |-> s, fault |-> FALSE, merged |-> done]
    ELSE LET a == Head(ts)
             r == rs[a]
             slot == IF a = "recommendation" THEN EmptyDict
                     ELSE [k \in {Slot(a)} |-> r.val]
         IN  IF ~Truthy(r) THEN MergeResultsIntoSlots(s, Tail(ts), rs, done)
             ELSE IF r.type = "list" THEN [st |-> s, fault |-> TRUE, merged |-> done]
             ELSE MergeResultsIntoSlots(Update(Update(s, r.val), slot), Tail(ts), rs,
                                        done \cup {a})

\* variant of MergeResults: the results are merged from the last task to the first
RECURSIVE MergeResultsReversed(_, _, _, _)
MergeResultsReversed(s, ts, rs, done) ==
    IF ts = <<>> THEN [st |-> s, fault |-> FALSE, merged |-> done]
    ELSE LET a == ts[Len(ts)]
             r == rs[a]
             rest == SubSeq(ts, 1, Len(ts) - 1)
         IN  IF ~Truthy(r) THEN MergeResultsReversed(s, rest, rs, done)
             ELSE IF r.type = "list" THEN [st |-> s, fault |-> TRUE, merged |-> done]
             ELSE MergeResultsReversed(Update(s, r.val), rest, rs, done \cup {a})

\* for result in results: if result: state.update(result)
\* dict.update of a list of dicts raises ValueError
RECURSIVE MergeResults(_, _, _, _)
MergeResults(s, ts, rs, done) ==
    IF ts = <<>> THEN [st |-> s, fault |-> FALSE, merged |-> done]
    ELSE LET r == rs[Head(ts)]
         IN  IF ~Truthy(r) THEN MergeResults(s, Tail(ts), rs, done)
             ELSE IF r.type = "list" THEN [st |-> s, fault |-> TRUE, merged |-> done]
             ELSE MergeResults(Update(s, r.val), Tail(ts), rs, done \cup {Head(ts)})

(***************************************************************************)
(* Response synthesis                                                      *)
(* A response text is modelled as the sequence of its parts; the parts are *)
(* joined with a blank line.                                               *)
(***************************************************************************)
Greeting == "Hi! I'm your AI shopping assistant. How can I help you today?"

GenericFallback ==
    "I'm here to help! You can ask me about products, check availability, or place an order."

SimpleGreeting ==
    "Hello! I'm your AI shopping assistant. I can help you find products, check availability, and complete your purchase. What are you looking for today?"

SimpleThanks == "You're welcome! Is there anything else I can help you with?"

SimpleDefault ==
    "I'm here to help! You can ask me about products, availability, or placing an order."

Apology ==
    "I apologize, but I'm having trouble processing your request. Please try again."

\* state.get(k) is a non-empty dict
HasDict(s, k) == k \in DOMAIN s /\ DOMAIN s[k] # {}

\* variant of RecommendationSection: every item of the slot gets a line
RecommendationSectionAll(s) ==
    IF "recommendations" \in DOMAIN s /\ s["recommendations"] # <<>>
    THEN LET recs == s["recommendations"]
         IN  <<"Based on your preferences, I found " \o ToString(Len(recs))
                 \o " items you might love:">>
             \o [i \in 1..Len(recs) |->
                   "* " \o recs[i].name \o " - Rs" \o ToString(recs[i].price)]
    ELSE <<>>

RecommendationSection(s) ==
    IF "recommendations" \in DOMAIN s /\ s["recommendations"] # <<>>
    THEN LET recs == s["recommendations"]
         IN  <<"Based on your preferences, I found " \o ToString(Len(recs))
                 \o " items you might love:">>
             \o [i \in 1..Min(3, Len(recs)) |->
                   "* " \o recs[i].name \o " - Rs" \o ToString(recs[i].price)]
    ELSE <<>>

InventorySection(s) ==
    IF HasDict(s, "inventory_status")
    THEN LET inv == s["inventory_status"]
         IN  IF "available" \in DOMAIN inv /\ inv.available
             THEN <<"Available at " \o inv.store \o " (" \o ToString(inv.stock) \o " in stock)">>
             ELSE <<"Currently unavailable. Alternative: "
                      \o (IF "alternative" \in DOMAIN inv THEN inv.alternative
                          ELSE "Check other stores")>>
    ELSE <<>>

LoyaltySection(s) ==
    IF HasDict(s, "loyalty_info")
    THEN LET loyalty == s["loyalty_info"]
         IN  (IF "points_available" \in DOMAIN loyalty /\ loyalty.points_available # 0
              THEN <<"You have " \o ToString(loyalty.points_available)
                       \o " loyalty points (Rs" \o ToString(loyalty.value) \o ")">>
              ELSE <<>>)
             \o (IF "offers" \in DOMAIN loyalty /\ loyalty.offers # <<>>
                 THEN <<"Special offer: " \o loyalty.offers[1]>>
                 ELSE <<>>)
    ELSE <<>>

PaymentSection(s) ==
    IF HasDict(s, "payment_status")
    THEN LET payment == s["payment_status"]
         IN  IF "success" \in DOMAIN payment /\ payment.success
             THEN <<"Payment successful! Transaction ID: " \o payment.transaction_id>>
             ELSE <<"Payment issue: "
                      \o (IF "message" \in DOMAIN payment THEN payment.message
                          ELSE "Please try again")>>
    ELSE <<>>

FulfillmentSection(s) ==
    IF HasDict(s, "fulfillment_info")
    THEN LET fulfillment == s["fulfillment_info"]
         IN  <<"Delivery: " \o (IF "timeline" \in DOMAIN fulfillment
                                THEN fulfillment.timeline ELSE "2-3 days")>>
    ELSE <<>>

SupportSection(s) ==
    IF HasDict(s, "support_info")
    THEN LET support == s["support_info"]
         IN  <<IF "message" \in DOMAIN support THEN support.message ELSE "">>
    ELSE <<>>

\* variant of Synthesize: the parts are appended to the text already in the state
SynthesizeAppends(s) ==
    LET parts == (IF s["messages"] = <<>> THEN <<Greeting>> ELSE <<>>)
                 \o RecommendationSection(s) \o InventorySection(s)
                 \o LoyaltySection(s) \o PaymentSection(s)
                 \o FulfillmentSection(s) \o SupportSection(s)
    IN  s["response"] \o (IF parts = <<>> THEN <<GenericFallback>> ELSE parts)

\* variant of Synthesize: the payment section precedes the loyalty section
SynthesizePaymentFirst(s) ==
    LET parts == (IF s["messages"] = <<>> THEN <<Greeting>> ELSE <<>>)
                 \o RecommendationSection(s) \o InventorySection(s)
                 \o PaymentSection(s) \o LoyaltySection(s)
                 \o FulfillmentSection(s) \o SupportSection(s)
    IN  IF parts = <<>> THEN <<GenericFallback>> ELSE parts

Synthesize(s) ==
    LET parts == (IF s["messages"] = <<>> THEN <<Greeting>> ELSE <<>>)
                 \o RecommendationSection(s) \o InventorySection(s)
                 \o LoyaltySection(s) \o PaymentSection(s)
                 \o FulfillmentSection(s) \o SupportSection(s)
    IN  IF parts = <<>> THEN <<GenericFallback>> ELSE parts

SimpleResponse(s) ==
    LET req == Lower(s["current_request"])
    IN  IF AnyIn(KW_greeting, req) THEN <<SimpleGreeting>>
        ELSE IF AnyIn(KW_thanks, req) THEN <<SimpleThanks>>
        ELSE <<SimpleDefault>>

(***************************************************************************)
(* Inputs                                                                  *)
(***************************************************************************)
CartItems ==
    { [product_id |-> "VH001", quantity |-> 1, size |-> "40"],
      [product_id |-> "VH001", quantity |-> MaxQty, size |-> "40"],
      [product_id |-> "VH999", quantity |-> 1, size |-> "40"] }

RECURSIVE SeqsUpTo(_, _)
SeqsUpTo(S, n) ==
    IF n = 0 THEN {<<>>}
    ELSE LET shorter == SeqsUpTo(S, n - 1)
         IN  shorter \cup {Append(q, x) : q \in {t \in shorter : Len(t) = n - 1}, x \in S}

Carts == SeqsUpTo(CartItems, MaxCart)

LikedLists == {<<>>, <<"VH001">>}

PriorTurns ==
    << [role |-> "user", content |-> Req_Hi, channel |-> "web"],
       [role |-> "assistant", content |-> <<Greeting>>, channel |-> "web"] >>

Histories == {<<>>, PriorTurns}

Sessions ==
    [customer_id : {"CUST001"}, liked_products : LikedLists, cart : Carts,
     conversation_history : Histories, location : {"Mumbai"}]

\* _execute of one more agent may raise
MayRaise == Cardinality({a \in Agents : outcome[a] = "raised"}) < MaxFaults

\* gateway lists with injected attempt outcomes: rate 0 always fails, rate 100 always succeeds
InjectedGateway(i) ==
    [name : {<<"A", "B", "C", "D", "E">>[i]}, success_rate : {0, 30, 100}, timeout : {1}]

RECURSIVE GatewayLists(_)
GatewayLists(n) ==
    IF n = 0 THEN {<<>>}
    ELSE LET shorter == GatewayLists(n - 1)
         IN  shorter \cup {Append(q, g) : q \in {t \in shorter : Len(t) = n - 1},
                                           g \in InjectedGateway(n)}

\* the dict run_orchestrator passes to graph.ainvoke
InitialState(sess, req) ==
    [session_id |-> "SESSION_1", customer_id |-> sess.customer_id, channel |-> "web",
     current_request |-> req, messages |-> sess.conversation_history,
     liked_products |-> sess.liked_products, cart |-> sess.cart,
     location |-> sess.location, agent_calls |-> <<>>, response |-> <<>>]

NoPay == [amount |-> 0, i |-> 0, retry_history |-> <<>>, outcomes |-> <<>>, attempted |-> <<>>]

(***************************************************************************)
(* Initial states                                                          *)
(***************************************************************************)
InitCommon ==
    /\ results = [a \in Agents |-> Dict(EmptyDict)]
    /\ outcome = [a \in Agents |-> "none"]
    /\ returned = [a \in Agents |-> Dict(EmptyDict)]
    /\ merged = {}
    /\ pay = NoPay
    /\ reply = EmptyDict
    /\ products = Products

\* a session exists and a request for it has arrived
Init ==
    /\ session \in Sessions
    /\ request \in Requests
    /\ gateways = ConfiguredGateways
    /\ state = EmptyDict
    /\ pc = "run_orchestrator"
    /\ tasks = <<>>
    /\ updates = <<>>
    /\ tpc = [a \in Agents |-> "idle"]
    /\ other = "none"
    /\ InitCommon

(***************************************************************************)
(* run_orchestrator and the graph nodes                                    *)
(***************************************************************************)
\* run_orchestrator up to graph.ainvoke: the run's state is built from the session
GraphInvoke ==
    /\ pc = "run_orchestrator"
    /\ state' = InitialState(session, request)
    /\ pc' = "orchestrator"
    /\ UNCHANGED <<session, request, gateways, products, other, tasks, tpc, results, outcome,
                   returned, updates, merged, pay, reply>>

\* orchestrator_node, followed by the conditional edge should_call_agents
OrchestratorNode ==
    /\ pc = "orchestrator"
    /\ LET needed == Classify(state)
           s1 == Update(state, [agents_needed |-> needed])
           s2 == [s1 EXCEPT !["agent_calls"] = Append(@, OrchestratorEntry(needed))]
       IN  /\ state' = s2
           /\ pc' = should_call_agents(s2)
    /\ updates' = Append(updates, 0)
    /\ UNCHANGED <<session, request, gateways, products, other, tasks, tpc, results, outcome,
                   returned, merged, pay, reply>>

\* call_agents_node up to the await of asyncio.gather: the tasks are created
CallAgentsLaunch ==
    /\ pc = "call_agents"
    /\ LET ts == LaunchList(state["agents_needed"])
       IN  /\ tasks' = ts
           /\ tpc' = [a \in Agents |-> IF InSeq(ts, a) THEN "ready" ELSE tpc[a]]
           /\ pc' = IF ts = <<>> THEN "synthesize" ELSE "gather"
    /\ UNCHANGED <<session, request, gateways, products, other, state, results, outcome,
                   returned, updates, merged, pay, reply>>

\* BaseAgent.run of an agent whose _execute raises or returns without a real
\* suspension: it runs from the append of its entry to its return in one step of
\* the event loop
AgentRun(a) ==
    /\ FirstReady(a)
    /\ \E raise \in BOOLEAN :
       LET calls == RunStart(state["agent_calls"], a)
           upd == Append(updates, 0)
           s1 == [state EXCEPT !["agent_calls"] = calls]
       IN  IF raise
           THEN /\ MayRaise
                /\ state' = [state EXCEPT !["agent_calls"] = RunFailed(calls, a, "injected fault")]
                /\ updates' = CountUpdate(upd, calls, a)
                /\ results' = [results EXCEPT ![a] = FailedReturn]
                /\ outcome' = [outcome EXCEPT ![a] = "raised"]
                /\ UNCHANGED <<returned, products>>
           ELSE LET r == Execute(a, s1, gateways)
                IN  /\ ~Suspends(a, state, gateways)
                    /\ state' = [state EXCEPT !["agent_calls"] = RunSuccess(calls, a, r)]
                    /\ updates' = CountUpdate(upd, calls, a)
                    /\ results' = [results EXCEPT ![a] = r]
                    /\ outcome' = [outcome EXCEPT ![a] = "returned"]
                    /\ returned' = [returned EXCEPT ![a] = r]
                    /\ products' = IF a = "recommendation"
                                   THEN StoreReasoning(products, r.val["recommendations"])
                                   ELSE products
    /\ tpc' = [tpc EXCEPT ![a] = "done"]
    /\ UNCHANGED <<session, request, gateways, other, pc, tasks, merged, pay, reply>>

\* BaseAgent.run of the payment agent up to the first asyncio.sleep of
\* _attempt_payment: the entry is appended, the amount computed, the loop entered
PaymentStart ==
    /\ FirstReady("payment")
    /\ Suspends("payment", state, gateways)
    /\ state' = [state EXCEPT !["agent_calls"] = RunStart(@, "payment")]
    /\ updates' = Append(updates, 0)
    /\ pay' = [amount |-> _calculate_total(state["cart"]), i |-> FirstGateway,
               retry_history |-> <<>>, outcomes |-> <<>>, attempted |-> <<>>]
    /\ tpc' = [tpc EXCEPT !["payment"] = "sleeping"]
    /\ UNCHANGED <<session, request, gateways, products, other, pc, tasks, results, outcome,
                   returned, merged, reply>>

\* the payment agent resumes after asyncio.sleep: the draw is made, the attempt is
\* recorded, and the loop either returns or sleeps for the next gateway
PaymentAttempt ==
    /\ tpc["payment"] = "sleeping"
    /\ NoTaskReady
    /\ \E draw \in Draws, txn \in TxnNumbers :
         LET gateway == gateways[pay.i]
             success == AttemptSucceeds(gateway, draw)
             history == RecordAttempt(pay.retry_history, gateway, success)
             calls == state["agent_calls"]
             finish(r) ==
                 /\ state' = [state EXCEPT !["agent_calls"] = RunSuccess(calls, "payment", r)]
                 /\ updates' = CountUpdate(updates, calls, "payment")
                 /\ results' = [results EXCEPT !["payment"] = r]
                 /\ returned' = [returned EXCEPT !["payment"] = r]
                 /\ outcome' = [outcome EXCEPT !["payment"] = "returned"]
                 /\ tpc' = [tpc EXCEPT !["payment"] = "done"]
                 /\ pay' = [pay EXCEPT !.retry_history = history,
                                        !.outcomes = Append(@, success),
                                        !.attempted = Append(@, pay.i)]
         IN  IF ReturnsFromLoop(success)
             THEN finish(SucceededResult(pay.amount, gateway, txn, history, gateways))
             ELSE IF pay.i < Len(gateways)
             THEN /\ pay' = [pay EXCEPT !.i = NextGateway(@), !.retry_history = history,
                                        !.outcomes = Append(@, success),
                                        !.attempted = Append(@, pay.i)]
                  /\ UNCHANGED <<state, updates, results, returned, outcome, tpc>>
             ELSE finish(AllFailedResult(pay.amount, history))
    /\ UNCHANGED <<session, request, gateways, products, other, pc, tasks, merged, reply>>

\* call_agents_node after the await of asyncio.gather: the results are merged in
\* task order; an exception of the merge leaves the node and the graph
GatherJoin ==
    /\ pc = "gather"
    /\ GatherComplete
    /\ LET m == MergeResults(state, tasks, results, {})
       IN  /\ state' = m.st
           /\ merged' = m.merged
           /\ pc' = IF m.fault THEN "faulted" ELSE "synthesize"
    /\ UNCHANGED <<session, request, gateways, products, other, tasks, tpc, results, outcome,
                   returned, updates, pay, reply>>

\* simple_response_node; its edge leads to the synthesizer
SimpleResponseNode ==
    /\ pc = "simple_response"
    /\ state' = [state EXCEPT !["response"] = SimpleResponse(state)]
    /\ pc' = "synthesize"
    /\ UNCHANGED <<session, request, gateways, products, other, tasks, tpc, results, outcome,
                   returned, updates, merged, pay, reply>>

\* synthesize_response_node; its edge leads to END
SynthesizeNode ==
    /\ pc = "synthesize"
    /\ state' = [state EXCEPT !["response"] = Synthesize(state)]
    /\ pc' = "END"
    /\ UNCHANGED <<session, request, gateways, products, other, tasks, tpc, results, outcome,
                   returned, updates, merged, pay, reply>>

UserTurn(req) == [role |-> "user", content |-> req, channel |-> "web"]

AssistantTurn(resp) == [role |-> "assistant", content |-> resp, channel |-> "web"]

\* variant of AppendTurns: only the user turn is appended
AppendTurnsUserOnly(history, req, resp) == Append(history, UserTurn(req))

\* the two appends to session["conversation_history"]; no await lies between them
AppendTurns(history, req, resp) ==
    Append(Append(history, UserTurn(req)), AssistantTurn(resp))

\* run_orchestrator after graph.ainvoke returned: the two turns are appended to
\* the session and the final state is returned
RunOrchestratorReturn ==
    /\ pc = "END"
    /\ session' = [session EXCEPT !.conversation_history =
                     AppendTurns(@, request, state["response"])]
    /\ reply' = state
    /\ pc' = "returned"
    /\ UNCHANGED <<request, gateways, products, other, state, tasks, tpc, results, outcome,
                   returned, updates, merged, pay>>

\* variant of ExceptReturn: the error fields are added to the run's state
ExceptReturnWithState(err) ==
    Update(state, [success |-> FALSE, response |-> <<Apology>>, error |-> err])

\* the dict run_orchestrator returns from its except clause
ExceptReturn(err) == [success |-> FALSE, response |-> <<Apology>>, error |-> err]

\* run_orchestrator's except clause
RunOrchestratorExcept ==
    /\ pc = "faulted"
    /\ reply' = ExceptReturn(UpdateError)
    /\ pc' = "returned"
    /\ UNCHANGED <<session, request, gateways, products, other, state, tasks, tpc, results,
                   outcome, returned, updates, merged, pay>>

Next ==
    \/ GraphInvoke
    \/ OrchestratorNode
    \/ CallAgentsLaunch
    \/ \E a \in Agents : AgentRun(a)
    \/ PaymentStart
    \/ PaymentAttempt
    \/ GatherJoin
    \/ SimpleResponseNode
    \/ SynthesizeNode
    \/ RunOrchestratorReturn
    \/ RunOrchestratorExcept

Spec == Init /\ [][Next]_vars


(***************************************************************************)
(* Two runs in one process: the agent instances are module-level objects,  *)
(* so a second run invokes the same RecommendationAgent. Of the second run *)
(* only that invocation touches anything the first run can see; it is      *)
(* scheduled while the first run's payment agent sleeps.                   *)
(***************************************************************************)
OtherRunRecommendation ==
    /\ other = "ready"
    /\ tpc["payment"] = "sleeping"
    /\ \E sess \in {x \in Sessions : x.conversation_history = <<>>} :
         LET r == RecommendationExecute(InitialState(sess, Req_Ok))
             written == StoreReasoning(products, r.val["recommendations"])
         IN  /\ products' = written
             /\ results' = [a \in Agents |-> RereadValue(results[a], written)]
             /\ state' = RereadState(state, written)
    /\ other' = "done"
    /\ UNCHANGED <<session, request, gateways, pc, tasks, tpc, outcome, returned,
                   updates, merged, pay, reply>>

InitTwo ==
    /\ session \in Sessions
    /\ request \in Requests
    /\ gateways = ConfiguredGateways
    /\ state = EmptyDict
    /\ pc = "run_orchestrator"
    /\ tasks = <<>>
    /\ updates = <<>>
    /\ tpc = [a \in Agents |-> "idle"]
    /\ other = "ready"
    /\ InitCommon

NextTwo ==
    \/ Next
    \/ OtherRunRecommendation

SpecTwo == InitTwo /\ [][NextTwo]_vars

(***************************************************************************)
(* Two runs on one session: get_session hands both runs the same session   *)
(* dict, and the graph state's 'messages' is the session's history list    *)
(* itself. The second run is taken from its graph.ainvoke to its return in *)
(* one step, at any point of the first run.                                *)
(***************************************************************************)
\* the requests of the second run: no agent or forced agents; the inventory list
OtherRequests == {Req_Thanks, Req_NearbyStore}

\* graph.ainvoke of a run none of whose agents suspends: whether the merge
\* faults, and the response otherwise
OtherRunGraph(req) ==
    LET s0 == InitialState(session, req)
        needed == Classify(s0)
        s1 == Update(s0, [agents_needed |-> needed])
        ts == LaunchList(needed)
        m == MergeResults(s1, ts,
                          [a \in Agents |-> IF InSeq(ts, a) THEN Execute(a, s1, gateways)
                                            ELSE Dict(EmptyDict)], {})
    IN  IF should_call_agents(s1) = "simple_response"
        THEN [fault |-> FALSE,
              response |-> Synthesize([s1 EXCEPT !["response"] = SimpleResponse(s1)])]
        ELSE [fault |-> m.fault, response |-> Synthesize(m.st)]

\* the second run returns: its two turns are appended to the shared history
OtherRunReturn ==
    /\ other = "ready"
    /\ \E req \in OtherRequests :
         LET g == OtherRunGraph(req)
             history == AppendTurns(session.conversation_history, req, g.response)
         IN  /\ ~g.fault
             /\ session' = [session EXCEPT !.conversation_history = history]
             /\ state' = IF "messages" \in DOMAIN state
                         THEN [state EXCEPT !["messages"] = history]
                         ELSE state
    /\ other' = "returned"
    /\ UNCHANGED <<request, gateways, products, pc, tasks, tpc, results, outcome, returned,
                   updates, merged, pay, reply>>

\* the second run ends in the except clause of run_orchestrator
OtherRunExcept ==
    /\ other = "ready"
    /\ \E req \in OtherRequests : OtherRunGraph(req).fault
    /\ other' = "failed"
    /\ UNCHANGED <<session, request, gateways, products, state, pc, tasks, tpc, results,
                   outcome, returned, updates, merged, pay, reply>>

\* the first run's requests: no agent, a waiting payment agent, the merge fault
RunRequests == {Req_Hi, Req_PayNow, Req_NearbyStore}

InitRuns ==
    /\ InitTwo
    /\ request \in RunRequests

NextRuns ==
    \/ Next
    \/ OtherRunReturn
    \/ OtherRunExcept

SpecRuns == InitRuns /\ [][NextRuns]_vars

(***************************************************************************)
(* A run under the event loop's scheduling: every task that is ready is    *)
(* run and every timer fires, so a step that stays possible is taken. The  *)
(* runs are those of the three requests on a session without cart and     *)
(* liked products.                                                         *)
(***************************************************************************)
InitFair ==
    /\ Init
    /\ request \in RunRequests
    /\ session.cart = <<>>
    /\ session.liked_products = <<>>

FairSpec == InitFair /\ [][Next]_vars /\ WF_vars(Next)

(***************************************************************************)
(* The failover protocol on its own: the payment agent is invoked through  *)
(* BaseAgent.run on a fresh state, with a gateway list whose attempt       *)
(* outcomes are injected.                                                  *)
(***************************************************************************)
InitPay ==
    /\ session \in Sessions
    /\ session.liked_products = <<>>
    /\ session.conversation_history = <<>>
    /\ request \in {Req_PayNow, Req_StockCheckout}
    /\ gateways \in GatewayLists(MaxGateways)
    /\ state = [InitialState(session, request) EXCEPT
                  !["agent_calls"] = <<OrchestratorEntry(<<"payment">>)>>]
    /\ pc = "gather"
    /\ tasks = <<"payment">>
    /\ updates = <<0>>
    /\ tpc = [a \in Agents |-> IF a = "payment" THEN "ready" ELSE "idle"]
    /\ other = "none"
    /\ InitCommon

NextPay ==
    \/ AgentRun("payment")
    \/ PaymentStart
    \/ PaymentAttempt

SpecPay == InitPay /\ [][NextPay]_vars

\* a whole run with a gateway list injected into the payment agent
InitInj ==
    /\ session \in Sessions
    /\ request \in Requests
    /\ gateways \in IF EntersRetry(InitialState(session, request))
                    THEN GatewayLists(MaxGateways)
                    ELSE {ConfiguredGateways}
    /\ state = EmptyDict
    /\ pc = "run_orchestrator"
    /\ tasks = <<>>
    /\ updates = <<>>
    /\ tpc = [a \in Agents |-> "idle"]
    /\ other = "none"
    /\ InitCommon

SpecInj == InitInj /\ [][Next]_vars

\* agents_needed as a caller of call_agents_node may set it: any ids, repeated or not
NeededLists == SeqsUpTo(Agents, MaxNeeded)

\* call_agents_node applied to a state with any agents_needed
InitDispatch ==
    /\ session \in {sess \in Sessions : sess.cart = <<>> /\ sess.liked_products = <<>>
                                         /\ sess.conversation_history = <<>>}
    /\ request = Req_PayNow
    /\ gateways = ConfiguredGateways
    /\ \E needed \in NeededLists :
          state = Update([InitialState(session, request) EXCEPT
                             !["agent_calls"] = <<OrchestratorEntry(needed)>>],
                         [agents_needed |-> needed])
    /\ pc = "call_agents"
    /\ tasks = <<>>
    /\ updates = <<0>>
    /\ tpc = [a \in Agents |-> "idle"]
    /\ other = "none"
    /\ InitCommon

NextDispatch ==
    \/ CallAgentsLaunch
    \/ \E a \in Agents : AgentRun(a)
    \/ PaymentStart
    \/ PaymentAttempt
    \/ GatherJoin

SpecDispatch == InitDispatch /\ [][NextDispatch]_vars

\* result slots as a caller of synthesize_response_node may populate them; an
\* empty fragment leaves the key out of the state
RecommendationSlots ==
    {EmptyDict} \cup
    { [recommendations |-> [i \in 1..k |-> Products[((i + off) % Len(Products)) + 1]]] :
          k \in 0..MaxRecs, off \in 0..1 }

InventorySlots ==
    { EmptyDict,
      [inventory_status |-> EmptyDict],
      [inventory_status |-> [available |-> TRUE, store |-> "Bandra Store", stock |-> 3]],
      [inventory_status |-> [available |-> FALSE, alternative |-> "Powai Store"]],
      [inventory_status |-> [available |-> FALSE]] }

LoyaltySlots ==
    { EmptyDict,
      [loyalty_info |-> EmptyDict],
      [loyalty_info |-> [points_available |-> 500, value |-> 50, offers |-> <<"10% off">>]],
      [loyalty_info |-> [points_available |-> 0, value |-> 0, offers |-> <<>>]] }

PaymentSlots ==
    { EmptyDict,
      [payment_status |-> [success |-> TRUE, transaction_id |-> "TXN100000"]],
      [payment_status |-> [success |-> FALSE, message |-> "All payment methods failed. Please try again later."]],
      [payment_status |-> [status |-> "pending"]] }

FulfillmentSlots ==
    { EmptyDict,
      [fulfillment_info |-> [timeline |-> "Tomorrow"]],
      [fulfillment_info |-> [method |-> "pickup"]] }

SupportSlots ==
    { EmptyDict,
      [support_info |-> [message |-> "Return initiated"]],
      [support_info |-> [status |-> "eligible"]] }

\* synthesize_response_node applied to a final state with any combination of slots
InitSyn ==
    /\ session \in {sess \in Sessions : sess.cart = <<>> /\ sess.liked_products = <<>>}
    /\ request = Req_Ok
    /\ gateways = ConfiguredGateways
    /\ \E rec \in RecommendationSlots, inv \in InventorySlots, loy \in LoyaltySlots,
          payment \in PaymentSlots, ful \in FulfillmentSlots, sup \in SupportSlots :
          state = Update(Update(Update(Update(Update(Update(
                      InitialState(session, request), rec), inv), loy), payment), ful), sup)
    /\ pc = "synthesize"
    /\ tasks = <<>>
    /\ updates = <<>>
    /\ tpc = [a \in Agents |-> "idle"]
    /\ other = "none"
    /\ InitCommon

NextSyn == SynthesizeNode

SpecSyn == InitSyn /\ [][NextSyn]_vars


(***************************************************************************)
(* Properties                                                              *)
(***************************************************************************)
calls == state["agent_calls"]

\* the dispatch of a non-empty task list has ended, by return or by exception
AfterDispatch == tasks # <<>> /\ pc \in {"synthesize", "END", "faulted", "returned"}

AgentEntries == {i \in 1..Len(calls) : calls[i].agent # "orchestrator"}

AgentOfName(n) == CHOOSE a \in Agents : AgentName(a) = n

SameValue(v, w) == v.type = w.type /\ v.val = w.val

Reverse(seq) == [i \in 1..Len(seq) |-> seq[Len(seq) + 1 - i]]

\* C1: after a dispatch every audit-log entry of an agent invocation has made
\* exactly one transition from 'processing' to 'success' or 'failed'; none is
\* still 'processing'.
C1_EachEntryOneTransition ==
    AfterDispatch =>
        \A i \in AgentEntries :
            calls[i].status \in {"success", "failed"} /\ updates[i] = 1

\* C2: after dispatch every entry with status 'success' carries the result that
\* the agent named in the entry returned.
C2_SuccessEntryOwnResult ==
    AfterDispatch =>
        \A i \in AgentEntries :
            calls[i].status = "success" =>
                SameValue(calls[i].result, returned[AgentOfName(calls[i].agent)])

C4_OwnSlotPopulated ==
    (tasks # <<>> /\ pc \in {"synthesize", "END"}) =>
        \A i \in 1..Len(tasks) :
            outcome[tasks[i]] = "returned" => Slot(tasks[i]) \in DOMAIN state

\* C5: the sets of fields written when merging different agents' results are
\* pairwise disjoint, and the merged state is the same in the reverse order.
C5_DisjointWrites ==
    (pc = "gather" /\ GatherComplete) =>
        /\ \A a, b \in Agents :
              (a # b /\ outcome[a] = "returned" /\ outcome[b] = "returned")
                  => Fields(returned[a]) \cap Fields(returned[b]) = {}
        /\ MergeResults(state, tasks, results, {}).st
              = MergeResults(state, Reverse(tasks), results, {}).st

\* C6: if the logic of a selected agent raised, every other selected agent has
\* run to completion, its result has been merged, and the run has not aborted.
C6_FailureIsolated ==
    (AfterDispatch /\ \E a \in Agents : outcome[a] = "raised") =>
        /\ pc # "faulted"
        /\ "error" \notin DOMAIN reply
        /\ \A i \in 1..Len(tasks) :
              /\ outcome[tasks[i]] \in {"returned", "raised"}
              /\ outcome[tasks[i]] = "returned" => tasks[i] \in merged

\* C7: the dispatch ends only after every launched task has finished, with
\* success or failure.
C7_FullJoin ==
    AfterDispatch =>
        \A i \in 1..Len(tasks) :
            tpc[tasks[i]] = "done" /\ outcome[tasks[i]] \in {"returned", "raised"}

C7_Witness ==
    /\ pc = "synthesize"
    /\ Len(tasks) >= 3
    /\ \E a \in Agents : outcome[a] = "raised"
    /\ Len(pay.outcomes) >= 2

\* C8: when the classifier selected no agent, the final response is the canned
\* reply of the no-agent path.
C8_NoAgentCannedReply ==
    (pc \in {"END", "returned"} /\ state["agents_needed"] = <<>>) =>
        state["response"] = SimpleResponse(state)

\* the payment invocation has returned from the failover protocol
PaymentReturned == outcome["payment"] = "returned" /\ EntersRetry(state)

\* C9: if an attempt succeeded, the result has success = true, its gateway is
\* the first gateway in list order whose attempt succeeded, and retry_history
\* has one entry per gateway up to and including it, all 'failed' but the last.
C9_FirstSuccessWins ==
    (PaymentReturned /\ \E j \in 1..Len(pay.outcomes) : pay.outcomes[j]) =>
        LET r == returned["payment"].val
            n == CHOOSE j \in 1..Len(pay.outcomes) :
                     pay.outcomes[j] /\ \A k \in 1..(j - 1) : ~pay.outcomes[k]
        IN  /\ r.success = TRUE
            /\ r.gateway = gateways[n].name
            /\ Len(r.retry_history) = n
            /\ \A j \in 1..n :
                  r.retry_history[j] =
                      [gateway |-> gateways[j].name,
                       status |-> IF j = n THEN "success" ELSE "failed"]
            /\ (\A j \in 1..Len(gateways) : gateways[j].success_rate \in {0, 100})
                  => /\ gateways[n].success_rate = 100
                     /\ \A j \in 1..(n - 1) : gateways[j].success_rate = 0

\* gateways [A fails, B fails, C succeeds]: gateway C, history of three entries
C9_Witness ==
    /\ PaymentReturned
    /\ Len(gateways) = 3
    /\ pay.outcomes = <<FALSE, FALSE, TRUE>>
    /\ returned["payment"].val.gateway = "C"

\* C10: if the attempt on every configured gateway failed, the result has
\* success = false and status 'failed', and retry_history has exactly one
\* 'failed' entry per configured gateway, in list order.
C10_AllFailed ==
    (PaymentReturned /\ \A j \in 1..Len(pay.outcomes) : ~pay.outcomes[j]) =>
        LET r == returned["payment"].val
        IN  /\ r.success = FALSE
            /\ r.status = "failed"
            /\ Len(r.retry_history) = Len(gateways)
            /\ \A j \in 1..Len(gateways) :
                  r.retry_history[j] = [gateway |-> gateways[j].name, status |-> "failed"]

C10_Witness ==
    /\ PaymentReturned
    /\ Len(gateways) = 3
    /\ pay.outcomes = <<FALSE, FALSE, FALSE>>
    /\ returned["payment"].val.status = "failed"

IsPrefix(p, q) == Len(p) <= Len(q) /\ \A j \in 1..Len(p) : q[j] = p[j]

\* C11: the gateways are attempted strictly in list order, none more than once
\* in an invocation, and none after an attempt has succeeded.
C11_InOrderOnceEach ==
    /\ Len(pay.attempted) <= Len(gateways)
    /\ \A j \in 1..Len(pay.attempted) : pay.attempted[j] = j
    /\ Len(pay.outcomes) = Len(pay.attempted)
    /\ \A j \in 1..(Len(pay.outcomes) - 1) : ~pay.outcomes[j]
    /\ Len(pay.retry_history) = Len(pay.attempted)
    /\ \A j \in 1..Len(pay.retry_history) :
          pay.retry_history[j].gateway = gateways[pay.attempted[j]].name

\* three gateways, the second succeeds: the third is never attempted
C11_Witness ==
    /\ tpc["payment"] = "done"
    /\ Len(gateways) = 3
    /\ pay.attempted = <<1, 2>>
    /\ pay.outcomes = <<FALSE, TRUE>>

\* the request holds one of the words the payment agent looks for
RequestAsksToPay ==
    LET req == Lower(request)
    IN  Contains(req, W_pay) \/ Contains(req, W_checkout) \/ Contains(req, W_purchase)

\* C12 as stated: every payment invocation on a request for which the classifier
\* selected the payment agent ends in 'completed' or in 'failed'.
C12_TerminalOutcome ==
    (InSeq(tasks, "payment") /\ outcome["payment"] = "returned") =>
        returned["payment"].val.status \in {"completed", "failed"}

\* C12: a payment invocation that returns ends in exactly one of 'completed'
\* (success = true) and 'failed' (success = false) when the request holds 'pay',
\* 'checkout' or 'purchase'; on any other request that selected the agent it
\* returns status 'pending' without attempting a gateway.
C12_TerminalOrPending ==
    (InSeq(tasks, "payment") /\ outcome["payment"] = "returned") =>
        LET r == returned["payment"].val
        IN  IF RequestAsksToPay
            THEN \/ r.status = "completed" /\ r.success = TRUE
                 \/ r.status = "failed" /\ r.success = FALSE
            ELSE /\ r.status = "pending"
                 /\ "success" \notin DOMAIN r
                 /\ pay.attempted = <<>>

\* 'stock? checkout' selected the payment agent and the payment completed
C12_Witness ==
    /\ request = Req_StockCheckout
    /\ InSeq(tasks, "payment")
    /\ outcome["payment"] = "returned"
    /\ returned["payment"].val.status = "completed"

\* C13: retry_history only grows, by exactly one appended entry per attempt;
\* no entry is removed, rewritten or reordered; and the complete history is
\* part of the result on both outcomes.
C13_HistoryAppendOnly ==
    [][/\ IsPrefix(pay.retry_history, pay.retry_history')
       /\ IF pay.attempted' # pay.attempted
          THEN Len(pay.retry_history') = Len(pay.retry_history) + 1
          ELSE pay.retry_history' = pay.retry_history
       /\ (outcome'["payment"] = "returned" /\ EntersRetry(state')) =>
             returned'["payment"].val.retry_history = pay.retry_history']_vars

\* two gateways, both fail: the result carries both entries
C13_Witness ==
    /\ PaymentReturned
    /\ Len(gateways) = 2
    /\ returned["payment"].val.retry_history =
          <<[gateway |-> "A", status |-> "failed"], [gateway |-> "B", status |-> "failed"]>>

RECURSIVE SumQuantity(_)
SumQuantity(cart) ==
    IF cart = <<>> THEN 0 ELSE Head(cart).quantity + SumQuantity(Tail(cart))

ExpectedAmount == IF session.cart = <<>> THEN 3950 ELSE 2500 * SumQuantity(session.cart)

\* C14: the amount is fixed before the first attempt: 2500 times the quantity
\* summed over all cart entries, equal entries counted separately, or 3950 for
\* an empty cart; it is the same whatever the number of attempts.
C14_AmountFixed ==
    /\ tpc["payment"] = "sleeping" => pay.amount = ExpectedAmount
    /\ outcome["payment"] = "returned" => returned["payment"].val.amount = ExpectedAmount

\* a cart with the same entry twice, three attempts: both entries are charged
C14_Witness ==
    /\ PaymentReturned
    /\ Len(session.cart) = 2
    /\ session.cart[1] = session.cart[2]
    /\ session.cart[1].quantity = 1
    /\ Len(pay.attempted) = 3
    /\ returned["payment"].val.amount = 5000

\* every gateway of a non-empty list was attempted and every attempt failed
AllFailedReached ==
    /\ tpc["payment"] = "done"
    /\ pay.attempted # <<>>
    /\ \A j \in 1..Len(pay.outcomes) : ~pay.outcomes[j]

KeywordGroups ==
    << [id |-> "recommendation", words |-> KW_recommendation],
       [id |-> "inventory", words |-> KW_inventory],
       [id |-> "payment", words |-> KW_payment],
       [id |-> "fulfillment", words |-> KW_fulfillment],
       [id |-> "loyalty", words |-> KW_loyalty],
       [id |-> "support", words |-> KW_support] >>

GroupMatched(g) ==
    LET req == Lower(request)
        words == KeywordGroups[g].words
    IN  \E k \in 1..Len(words) : Contains(req, words[k])

NoKeywordMatched == \A g \in 1..Len(KeywordGroups) : ~GroupMatched(g)

NothingKept == session.cart = <<>> /\ session.liked_products = <<>>

\* the classifier has just run and the conditional edge has been taken
Classified == pc \in {"call_agents", "simple_response"}

Selected == state["agents_needed"]

\* C16: on a request holding no keyword of any group, with an empty cart and
\* an empty liked list, the classifier selects no agent and the run takes the
\* no-agent path: no task is created and the next node is simple_response.
C16_NoKeywordNoAgents ==
    /\ []((Classified /\ NothingKept /\ NoKeywordMatched) =>
            Selected = <<>> /\ pc = "simple_response")
    /\ [](("agents_needed" \in DOMAIN state /\ Selected = <<>>) =>
            /\ tasks = <<>>
            /\ \A a \in Agents : tpc[a] = "idle"
            /\ pc \in {"simple_response", "synthesize", "END", "returned"})
    /\ [][(pc = "orchestrator" /\ NothingKept /\ NoKeywordMatched) =>
             pc' = "simple_response"]_vars

\* 'ok' with nothing in the cart: the run is at simple_response, no agent selected
C16_Witness ==
    /\ request = Req_Ok
    /\ NothingKept
    /\ pc = "simple_response"
    /\ Selected = <<>>

\* C17: the selected agents include the id of every group of which a keyword
\* occurs in the lower-cased request.
C17_MatchedGroupsSelected ==
    Classified =>
        \A g \in 1..Len(KeywordGroups) :
            GroupMatched(g) => InSeq(Selected, KeywordGroups[g].id)

\* 'stock? checkout' matches two groups and both are selected
C17_Witness ==
    /\ Classified
    /\ request = Req_StockCheckout
    /\ GroupMatched(2) /\ GroupMatched(3)
    /\ InSeq(Selected, "inventory") /\ InSeq(Selected, "payment")

\* C18: a non-empty selection contains 'loyalty', and the rule that adds
\* 'loyalty' never makes an empty selection non-empty.
C18_LoyaltyWithAny ==
    Classified =>
        /\ Selected # <<>> => InSeq(Selected, "loyalty")
        /\ (NoKeywordMatched /\ NothingKept) => ~InSeq(Selected, "loyalty")

\* 'nearby store' matches inventory only: loyalty is added
C18_Witness ==
    /\ Classified
    /\ request = Req_NearbyStore
    /\ NothingKept
    /\ ~GroupMatched(5)
    /\ Selected = <<"inventory", "loyalty">>

\* C19: with a non-empty cart or a non-empty liked list 'recommendation' is
\* selected whatever the request text.
C19_KeptItemsForceRecommendation ==
    (Classified /\ ~NothingKept) => InSeq(Selected, "recommendation")

\* 'Hi' with an empty cart and one liked product
C19_Witness ==
    /\ Classified
    /\ request = Req_Hi
    /\ session.cart = <<>>
    /\ session.liked_products # <<>>
    /\ InSeq(Selected, "recommendation")

\* the selection as section 4.2 describes it: the ids of the matched groups in
\* group order, then a forced 'recommendation', then a forced 'loyalty'
ExpectedSelection ==
    LET hit == SelectSeq(<<1, 2, 3, 4, 5, 6>>, LAMBDA g : GroupMatched(g))
        matched == [i \in 1..Len(hit) |-> KeywordGroups[hit[i]].id]
        withRec == IF ~NothingKept /\ ~GroupMatched(1)
                   THEN matched \o <<"recommendation">> ELSE matched
    IN  IF withRec # <<>> /\ ~GroupMatched(5)
        THEN withRec \o <<"loyalty">> ELSE withRec

\* C20: no id occurs twice in the selection, and its order is first-seen:
\* keyword-matched ids in the order recommendation, inventory, payment,
\* fulfillment, loyalty, support, then a forced 'recommendation', then a
\* forced 'loyalty'.
C20_FirstSeenOrder ==
    Classified =>
        /\ \A i, j \in 1..Len(Selected) : Selected[i] = Selected[j] => i = j
        /\ Selected = ExpectedSelection

\* 'refund help' with a cart: support, then recommendation, then loyalty
C20_Witness ==
    /\ Classified
    /\ request = Req_RefundHelp
    /\ session.cart # <<>>
    /\ Selected = <<"support", "recommendation", "loyalty">>

Response == state["response"]

\* the result slot k is non-empty
SlotFilled(k) ==
    /\ k \in DOMAIN state
    /\ IF k = "recommendations" THEN state[k] # <<>> ELSE DOMAIN state[k] # {}

\* the sections of the response in the order of section 4.5, with their slots
SectionOrder ==
    << [slot |-> "messages", part |-> IF state["messages"] = <<>> THEN <<Greeting>> ELSE <<>>],
       [slot |-> "recommendations", part |-> RecommendationSection(state)],
       [slot |-> "inventory_status", part |-> InventorySection(state)],
       [slot |-> "loyalty_info", part |-> LoyaltySection(state)],
       [slot |-> "payment_status", part |-> PaymentSection(state)],
       [slot |-> "fulfillment_info", part |-> FulfillmentSection(state)],
       [slot |-> "support_info", part |-> SupportSection(state)] >>

RECURSIVE SectionsFrom(_)
SectionsFrom(n) ==
    IF n > Len(SectionOrder) THEN <<>> ELSE SectionOrder[n].part \o SectionsFrom(n + 1)

\* C21: the synthesized response is the sequence of the sections greeting (only
\* with an empty conversation history), recommendations, inventory, loyalty,
\* payment, fulfillment, support, in that order (its parts are joined with a
\* blank line), and a section is present only if its slot is non-empty.
C21_SectionsInOrder ==
    pc = "END" =>
        /\ \A n \in 2..Len(SectionOrder) :
              ~SlotFilled(SectionOrder[n].slot) => SectionOrder[n].part = <<>>
        /\ state["messages"] # <<>> => \A i \in 1..Len(Response) : Response[i] # Greeting
        /\ SectionsFrom(1) # <<>> => Response = SectionsFrom(1)

\* loyalty and payment both filled, with history: loyalty comes first
C21_Witness ==
    /\ pc = "END"
    /\ state["messages"] # <<>>
    /\ SlotFilled("loyalty_info") /\ SlotFilled("payment_status")
    /\ ~SlotFilled("recommendations") /\ ~SlotFilled("inventory_status")
    /\ Len(Response) = 3
    /\ Response[3] = "Payment successful! Transaction ID: TXN100000"

ItemLine(rec) == "* " \o rec.name \o " - Rs" \o ToString(rec.price)

ItemLines == {ItemLine(Products[i]) : i \in 1..Len(Products)}

OnlyRecommendations ==
    /\ SlotFilled("recommendations")
    /\ \A k \in {"inventory_status", "loyalty_info", "payment_status",
                  "fulfillment_info", "support_info"} : ~SlotFilled(k)

\* the header and the lines of the first three items
TopThree ==
    LET recs == state["recommendations"]
    IN  <<"Based on your preferences, I found " \o ToString(Len(recs))
            \o " items you might love:">>
        \o [i \in 1..Min(3, Len(recs)) |-> ItemLine(recs[i])]

\* C22 as stated: with only the recommendations slot filled the response is the
\* recommendations section alone, with min(k, 3) item lines.
C22_OnlyTopThree ==
    (pc = "END" /\ OnlyRecommendations) => Response = TopThree

\* C22: for a recommendations slot of k items the response has exactly
\* min(k, 3) item lines, those of the first three items in slot order; with
\* only that slot filled the sections of all other agents are omitted, and the
\* greeting precedes the recommendations when the conversation history is empty.
C22_TopThreeAfterGreeting ==
    pc = "END" =>
        /\ SlotFilled("recommendations") =>
              /\ Cardinality({i \in 1..Len(Response) : Response[i] \in ItemLines})
                    = Min(3, Len(state["recommendations"]))
              /\ \E n \in 0..1 :
                    SubSeq(Response, n + 1, n + Len(TopThree)) = TopThree
        /\ OnlyRecommendations =>
              Response = (IF state["messages"] = <<>> THEN <<Greeting>> ELSE <<>>) \o TopThree

\* four items, nothing else, with history: the header and three lines
C22_Witness ==
    /\ pc = "END"
    /\ OnlyRecommendations
    /\ Len(state["recommendations"]) = 4
    /\ state["messages"] # <<>>
    /\ Len(Response) = 4

\* C23: if no agent contributed anything to the state, the synthesized response
\* is the fixed generic fallback message.
C23_FallbackWhenNothing ==
    (pc = "END" /\ merged = {} /\ \A n \in 2..Len(SectionOrder) : ~SlotFilled(SectionOrder[n].slot))
        => Response = <<GenericFallback>>

\* the response of a no-agent run as a function of the request text and the
\* prior conversation alone
NoAgentReply(req, history) ==
    IF history = <<>> THEN <<Greeting>> ELSE <<GenericFallback>>

\* C24: the response of a run on the no-agent path is determined by the request
\* text and the prior conversation, so two such runs with the same request and
\* the same empty history return the same text.
C24_NoAgentPathDeterministic ==
    (pc \in {"END", "returned"} /\ tasks = <<>>) =>
        Response = NoAgentReply(request, state["messages"])

\* 'thanks' on a new session has gone down the no-agent path
C24_Witness ==
    /\ pc = "returned"
    /\ tasks = <<>>
    /\ request = Req_Thanks
    /\ state["messages"] = <<>>
    /\ reply["response"] = <<Greeting>>

\* the merge of the results faults: some truthy result is a list
MergeFaults == \E i \in 1..Len(tasks) : results[tasks[i]].type = "list"

\* C25: when a step outside the agents faults, the caller receives exactly the
\* apology, the error text and success = false, and no field of the run's state.
C25_OnlyApologyOnFault ==
    /\ [](pc = "faulted" => MergeFaults /\ reply = EmptyDict)
    /\ []((pc = "returned" /\ MergeFaults) =>
            /\ DOMAIN reply = {"success", "response", "error"}
            /\ reply["success"] = FALSE
            /\ reply["response"] = <<Apology>>
            /\ reply["error"] = UpdateError)
    /\ [][pc = "faulted" => pc' = "returned"]_vars

\* 'nearby store': the inventory list made the merge fault and the caller has the apology
C25_Witness ==
    /\ pc = "returned"
    /\ request = Req_NearbyStore
    /\ MergeFaults
    /\ reply["success"] = FALSE

\* C26: in one run each agent is invoked at most once, also when its id occurs
\* more than once in agents_needed.
C26_AtMostOnce ==
    \A a \in Agents :
        /\ Cardinality({i \in 1..Len(tasks) : tasks[i] = a}) <= 1
        /\ Cardinality({i \in 1..Len(calls) : calls[i].agent = AgentName(a)}) <= 1

\* agents_needed names loyalty twice: after the dispatch it has one entry
C26_Witness ==
    /\ pc = "synthesize"
    /\ state["agents_needed"] = <<"loyalty", "support", "loyalty">>
    /\ tasks = <<"loyalty", "support">>
    /\ Len(calls) = 3

\* C27: no step of a run changes the request text, the cart, the liked
\* products or the location of the run's state.
C27_InputsReadOnly ==
    pc # "run_orchestrator" =>
        /\ state["current_request"] = request
        /\ state["cart"] = session.cart
        /\ state["liked_products"] = session.liked_products
        /\ state["location"] = session.location

\* a run with a cart: support and the other agents have run, the cart is as it was
C27_Witness ==
    /\ pc = "returned"
    /\ request = Req_RefundHelp
    /\ session.cart # <<>>
    /\ "support" \in merged
    /\ reply["cart"] = session.cart

\* C29: for each agent whose logic raised, the audit log after the dispatch has
\* an entry that names the agent and has status 'failed' with the error text.
C29_FailureRecorded ==
    AfterDispatch =>
        \A a \in Agents :
            outcome[a] = "raised" =>
                \E i \in 1..Len(calls) :
                    /\ calls[i].agent = AgentName(a)
                    /\ calls[i].status = "failed"
                    /\ "error" \in DOMAIN calls[i]

OtherTasksDone ==
    \A i \in 1..Len(tasks) : tasks[i] # "payment" => tpc[tasks[i]] = "done"

\* C30: while the payment agent waits on a gateway attempt, every other selected
\* agent starts and runs to completion before the payment agent resumes, and
\* the controller stays at the join meanwhile.
C30_SiblingsRunDuringSleep ==
    /\ tpc["payment"] = "sleeping" => pc = "gather"
    /\ (InSeq(tasks, "payment") /\ pay.attempted # <<>>) => OtherTasksDone

\* the payment agent is still waiting on its first attempt and the two agents
\* launched after it are done
C30_Witness ==
    /\ tpc["payment"] = "sleeping"
    /\ pay.attempted = <<>>
    /\ tasks = <<"inventory", "payment", "loyalty">>
    /\ tpc["loyalty"] = "done"
    /\ pc = "gather"

\* C28: nothing a concurrent run writes is visible in, or changes, the state
\* and the results of this run: what the run holds of the recommendation
\* agent is what that agent returned to it.
C28_RunsShareNothing ==
    outcome["recommendation"] = "returned" =>
        /\ results["recommendation"] = returned["recommendation"]
        /\ "recommendation" \in merged =>
              state["recommendations"] = returned["recommendation"].val["recommendations"]
        /\ (pc = "returned" /\ "recommendations" \in DOMAIN reply) =>
              reply["recommendations"] = returned["recommendation"].val["recommendations"]

\* the order in which the results are merged
MergeOrder ==
    <<"recommendation", "inventory", "payment", "fulfillment", "loyalty", "support">>

\* the merged agents that returned the key k
WritersOf(k) == {a \in merged : k \in Fields(results[a])}

\* of the merged agents that returned the key k, the last one in MergeOrder
LastWriter(k) ==
    CHOOSE a \in WritersOf(k) :
        \A b \in WritersOf(k) : IndexOf(MergeOrder, b) <= IndexOf(MergeOrder, a)

\* C31: after the join the results are merged in the order recommendation,
\* inventory, payment, fulfillment, loyalty, support: a key that several agents
\* returned holds the value of the last of them in that order, whichever agent
\* finished last and whatever the order of the ids in agents_needed.
C31_MergedInLaunchOrder ==
    (pc = "synthesize" /\ tasks # <<>>) =>
        /\ merged = {a \in Agents : InSeq(tasks, a) /\ Truthy(results[a])}
        /\ \A a \in merged : \A k \in Fields(results[a]) :
              state[k] = results[LastWriter(k)].val[k]

\* agents_needed names support before payment and the payment agent finished
\* last: 'status' and 'message' are those of the support agent
C31_Witness ==
    /\ pc = "synthesize"
    /\ state["agents_needed"] = <<"support", "payment">>
    /\ pay.attempted # <<>>
    /\ merged = {"payment", "support"}
    /\ state["message"] = results["support"].val["message"]
    /\ state["message"] # results["payment"].val["message"]

Raised == {a \in Agents : outcome[a] = "raised"}

\* the tasks of the dispatch without those whose agent raised
TasksNotRaised == SelectSeq(tasks, LAMBDA a : a \notin Raised)

\* the payment agent of this run has waited on a gateway attempt
PaymentWaited == pay.attempted # <<>>

\* the agent entries that a dispatch of the tasks ts leaves in the audit log,
\* each agent returning what it returned in this run: every task appends its
\* entry and runs to its return, except a waiting payment agent, which returns
\* after all the others
RECURSIVE DispatchLog(_, _)
DispatchLog(ts, log) ==
    IF ts = <<>>
    THEN IF PaymentWaited /\ InSeq(log, ProcessingEntry("payment"))
         THEN RunSuccess(log, "payment", returned["payment"])
         ELSE log
    ELSE LET a == Head(ts)
             started == RunStart(log, a)
         IN  IF a = "payment" /\ PaymentWaited
             THEN DispatchLog(Tail(ts), started)
             ELSE DispatchLog(Tail(ts), RunSuccess(started, a, returned[a]))

\* the state that the merge of the results of the tasks ts leaves
DispatchState(ts) ==
    MergeResults(Update(InitialState(session, request),
                        [agents_needed |-> state["agents_needed"]]),
                 ts, returned, {}).st

\* C32: an agent that raised contributes nothing: after the dispatch the state,
\* apart from the audit-log entry of that agent (and the record of the
\* selection itself), is the state that the dispatch of the other selected
\* agents alone leaves, audit-log entries of those agents included.
C32_FailedAgentAsIfNotSelected ==
    (pc = "synthesize" /\ tasks # <<>> /\ Raised # {}) =>
        /\ \A a \in Raised : ~Truthy(results[a])
        /\ \A k \in DOMAIN state \ {"agent_calls"} : state[k] = DispatchState(TasksNotRaised)[k]
        /\ SelectSeq(Tail(calls), LAMBDA e : \A a \in Raised : e.agent # AgentName(a))
              = DispatchLog(TasksNotRaised, <<>>)

\* the names of the audit log's entries, in append order
EntryNames == [i \in 1..Len(calls) |-> calls[i].agent]

\* the classifier's entry, then the selected agents in launch order
LaunchOrderNames ==
    LET selected == SelectSeq(MergeOrder, LAMBDA a : InSeq(state["agents_needed"], a))
    IN  <<"orchestrator">> \o [i \in 1..Len(selected) |-> AgentName(selected[i])]

\* C33: the audit log is appended to in launch order: the classifier's entry
\* first, then the entries of the selected agents in the order recommendation,
\* inventory, payment, fulfillment, loyalty, support, whichever agent finishes
\* first; after the dispatch every selected agent has its entry.
C33_AppendedInLaunchOrder ==
    pc \notin {"run_orchestrator", "orchestrator"} =>
        /\ IsPrefix(EntryNames, LaunchOrderNames)
        /\ Len(calls) >= 1
        /\ AfterDispatch => EntryNames = LaunchOrderNames

\* loyalty has finished while the payment agent, launched before it, still
\* waits: the payment entry precedes the loyalty entry
C33_Witness ==
    /\ pc = "gather"
    /\ tpc["payment"] = "sleeping"
    /\ tpc["loyalty"] = "done"
    /\ EntryNames = <<"orchestrator", "Recommendation Agent", "Payment Agent", "Loyalty Agent">>
    /\ calls[3].status = "processing"
    /\ calls[4].status = "success"

\* every selected agent has returned normally
AllReturned == tasks # <<>> /\ \A i \in 1..Len(tasks) : outcome[tasks[i]] = "returned"

\* C34: if every selected agent returns normally the merge of the results
\* does not fault, whatever each agent returned: the run goes on to the
\* synthesizer and the caller gets the synthesized response, not the apology.
C34_MergeNeverFaults ==
    AllReturned =>
        /\ pc # "faulted"
        /\ pc = "returned" => (reply = state /\ reply["response"] # <<Apology>>)

\* C35: with the configured gateways Razorpay (0.3), PayU (0.3) and UPI Direct
\* (1.0) the failover protocol makes at most 3 attempts, the attempt on the
\* last gateway succeeds whatever the draw, and an invocation that entered the
\* protocol returns 'completed': the all-failed result is never produced.
C35_ConfiguredNeverAllFailed ==
    /\ Len(pay.attempted) <= 3
    /\ \A j \in 1..Len(pay.attempted) : pay.attempted[j] = 3 => pay.outcomes[j]
    /\ ~AllFailedReached
    /\ (tpc["payment"] = "done" /\ pay.attempted # <<>>) =>
          /\ outcome["payment"] = "returned"
          /\ returned["payment"].val["success"] = TRUE
          /\ returned["payment"].val["status"] = "completed"
          /\ pay.outcomes[Len(pay.outcomes)]

\* Razorpay and PayU failed and UPI Direct succeeded at the third attempt
C35_Witness ==
    /\ tpc["payment"] = "done"
    /\ gateways = ConfiguredGateways
    /\ pay.attempted = <<1, 2, 3>>
    /\ pay.outcomes = <<FALSE, FALSE, TRUE>>
    /\ returned["payment"].val["gateway"] = "UPI Direct"

\* the slots that only the agents other than the recommendation agent could fill
OtherSlots ==
    {"inventory_status", "payment_status", "fulfillment_info", "loyalty_info", "support_info"}

\* the greeting on a first turn, then the recommendations section if there are
\* recommendations; the generic fallback if both are absent
GreetingAndRecommendations ==
    LET parts == (IF state["messages"] = <<>> THEN <<Greeting>> ELSE <<>>)
                 \o (IF SlotFilled("recommendations") THEN TopThree ELSE <<>>)
    IN  IF parts = <<>> THEN <<GenericFallback>> ELSE parts

history == session.conversation_history

\* from the prior turns on, the history is user turn, assistant turn, ...
TurnsAlternate ==
    /\ Len(history) % 2 = 0
    /\ \A i \in 1..Len(history) :
          history[i].role = IF i % 2 = 1 THEN "user" ELSE "assistant"

\* C37: of the runs on one session, overlapping ones included, a run that
\* completes appends its user turn immediately followed by its own assistant
\* turn in one step, a run that ends in the run-level failure appends
\* nothing, and the history changes in no other step: it is a sequence of
\* whole pairs.
C37_TurnsInPairs ==
    /\ []TurnsAlternate
    /\ [][/\ (pc = "END" /\ pc' = "returned") =>
              session'.conversation_history
                 = history \o <<UserTurn(request), AssistantTurn(state["response"])>>
          /\ (pc = "faulted" /\ pc' = "returned") =>
              session'.conversation_history = history
          /\ (other = "ready" /\ other' = "returned") =>
              \E req \in OtherRequests :
                  /\ Len(session'.conversation_history) = Len(history) + 2
                  /\ SubSeq(session'.conversation_history, 1, Len(history) + 1)
                        = Append(history, UserTurn(req))
                  /\ session'.conversation_history[Len(history) + 2].role = "assistant"
          /\ (other = "ready" /\ other' = "failed") =>
              session'.conversation_history = history
          /\ session'.conversation_history # history =>
              \/ pc = "END" /\ pc' = "returned"
              \/ other = "ready" /\ other' = "returned"]_vars

\* the second run completed while the first run's payment agent waited, and
\* the first run has completed after it: two whole pairs, in completion order
C37_Witness ==
    /\ pc = "returned"
    /\ other = "returned"
    /\ request = Req_PayNow
    /\ pay.attempted # <<>>
    /\ Len(history) = 4
    /\ history[1] = UserTurn(Req_Thanks)
    /\ history[3] = UserTurn(Req_PayNow)
    /\ history[4] = AssistantTurn(reply["response"])
    /\ reply["messages"] = SubSeq(history, 1, 2)

\* the steps from node to node of a run that visits the classifier, then the
\* dispatcher (up to its join) or the no-agent node, then the synthesizer
NodePath ==
    { <<"run_orchestrator", "orchestrator">>,
      <<"orchestrator", "call_agents">>, <<"orchestrator", "simple_response">>,
      <<"call_agents", "gather">>, <<"call_agents", "synthesize">>,
      <<"gather", "synthesize">>, <<"simple_response", "synthesize">>,
      <<"synthesize", "END">>, <<"END", "returned">> }

\* C38: every run terminates; the failover protocol attempts each configured
\* gateway at most once; the dispatcher joins at most six tasks; and the graph
\* visits the classifier, then the dispatcher or the no-agent node, then the
\* synthesizer, each once, before the run ends.
C38_TerminatesEachNodeOnce ==
    /\ <>(pc = "returned")
    /\ [](/\ Len(pay.attempted) <= Len(gateways)
          /\ \A i, j \in 1..Len(pay.attempted) :
                pay.attempted[i] = pay.attempted[j] => i = j
          /\ Len(tasks) <= 6)
    /\ [][pc' # pc => <<pc, pc'>> \in NodePath]_vars
====
